---- MODULE Spec2Model ----
(***************************************************************************)
(* errorsmith: source-to-source fault injector (src/main.go, second file   *)
(* of the concatenation, lines 141-378).                                   *)
(*                                                                         *)
(* Text is a sequence of one-character strings; offsets are 0-based byte   *)
(* offsets as in the Go code, token.Pos values are offset + 1 (the base of *)
(* the single file of the FileSet).  The syntax tree is a heap: a sequence *)
(* of node records addressed by index, 0 standing for nil.                 *)
(***************************************************************************)
EXTENDS Integers, Sequences, FiniteSets, TLC

VARIABLES
    input,       \* the source file handed to injectErrors (abstract syntax)
    parsed,      \* what parser.ParseFile returned for it, kept as delivered
    content,     \* File.content: the original bytes
    heap,        \* the nodes of File.astFile (mutated in place by Visit)
    root,        \* File.astFile
    nameEnd,     \* File.astFile.Name.End()
    errorPercent,\* *errorPercent, a rational [num, den]
    arch,        \* the build target, which decides out-of-range float->int conversions
    output,      \* *output: "" (stdout) or a path
    q,           \* File.edit: the Edits recorded so far, in call order
    panicked,    \* "" or the panic message that aborted the run
    pc,          \* position inside injectErrors
    newContent,  \* newContent of injectErrors
    formatted,   \* formatted of injectErrors
    err,         \* err of injectErrors after format.Source ("" for nil)
    fd,          \* "" before the output is opened, else "stdout" or "file"
    written,     \* the bytes written to fd, <<>> before the write
    wrote,       \* whether fd.Write has been called
    exit,        \* "" while running, else "ok", "fatal" or "panic"
    fstart,      \* findText probe: start offset
    fkey,        \* findText probe: keyword
    fres         \* findText probe: result ("none" before the call)

vars == <<input, parsed, content, heap, root, nameEnd, errorPercent, arch, output, q,
          panicked, pc, newContent, formatted, err, fd, written, wrote, exit,
          fstart, fkey, fres>>

-----------------------------------------------------------------------------
(* Bounds of the model *)

\* largest number of conditional statements in a freely generated source file
MaxIfs == 2
\* largest number of conditionals chained by else-if in a generated chain
MaxChain == 3
\* largest number of text pieces a findText probe buffer is built from
MaxPieces == 4

-----------------------------------------------------------------------------
(* Program constants (src/main.go:175-181) *)

randPackagePath == "math/rand"
randPackageName == "_errorsmith_rand_"
fmtPackagePath == "fmt"
fmtPackageName == "_errorsmith_fmt_"

\* the bytes of a string
Chars(s) == [i \in 1..Len(s) |-> SubSeq(s, i, i)]

-----------------------------------------------------------------------------
(* Source text fragments *)

T_package == <<"p","a","c","k","a","g","e"," ","p">>
T_func == <<"\n","f","u","n","c"," ","f","(",")","{","\n">>
T_if == <<"i","f"," ">>
T_else == <<"e","l","s","e">>
T_initOpen == <<"a",":","=","f","u","n","c","(",")","{">>

\* The condition forms: X Op Y, or a non-binary expression.
Conds ==
    { [bin |-> TRUE,  xIdent |-> TRUE,  x |-> "err", op |-> "!=", yIdent |-> TRUE,  y |-> "nil"],
      [bin |-> TRUE,  xIdent |-> TRUE,  x |-> "err", op |-> "==", yIdent |-> TRUE,  y |-> "nil"],
      [bin |-> TRUE,  xIdent |-> TRUE,  x |-> "x",   op |-> "!=", yIdent |-> TRUE,  y |-> "nil"],
      [bin |-> TRUE,  xIdent |-> TRUE,  x |-> "err", op |-> "<",  yIdent |-> TRUE,  y |-> "nil"],
      [bin |-> TRUE,  xIdent |-> TRUE,  x |-> "err", op |-> "!=", yIdent |-> TRUE,  y |-> "x"],
      [bin |-> TRUE,  xIdent |-> FALSE, x |-> "g()", op |-> "!=", yIdent |-> TRUE,  y |-> "nil"],
      [bin |-> TRUE,  xIdent |-> TRUE,  x |-> "err", op |-> "!=", yIdent |-> FALSE, y |-> "g()"],
      [bin |-> FALSE, xIdent |-> TRUE,  x |-> "ok",  op |-> "",   yIdent |-> FALSE, y |-> ""] }

CondErrNeNil == [bin |-> TRUE, xIdent |-> TRUE, x |-> "err", op |-> "!=", yIdent |-> TRUE, y |-> "nil"]
CondXNeNil == [bin |-> TRUE, xIdent |-> TRUE, x |-> "x", op |-> "!=", yIdent |-> TRUE, y |-> "nil"]
BasicConds == {CondErrNeNil, CondXNeNil}

CondText(c) == Chars(c.x \o c.op \o c.y)

-----------------------------------------------------------------------------
(* Source files given to the tool.  A file is generated as abstract syntax  *)
(* and then laid out as text by the parser model below, so that content     *)
(* and tree always agree, as they do after parser.ParseFile succeeded.      *)

MkIf(c, hi, il, bl, ek, el) ==
    [cond |-> c, hasInit |-> hi, initList |-> il, body |-> bl, elseKind |-> ek, elseList |-> el]

RECURSIVE Lists(_, _), Ifs(_, _)
\* the statement lists holding exactly m conditionals, conditions drawn from cs
Lists(m, cs) ==
    IF m = 0 THEN {<<>>}
    ELSE UNION { { <<h>> \o t : h \in Ifs(k, cs), t \in Lists(m - k, cs) } : k \in 1..m }
\* the conditionals (without initializer) holding exactly n conditionals, itself included
Ifs(n, cs) ==
    { MkIf(c, FALSE, <<>>, bl, "none", <<>>) : c \in cs, bl \in Lists(n - 1, cs) }
    \cup UNION { { MkIf(c, FALSE, <<>>, bl, "block", el) :
                     c \in cs, bl \in Lists(b, cs), el \in Lists(n - 1 - b, cs) } : b \in 0..(n - 1) }
    \cup UNION { { MkIf(c, FALSE, <<>>, bl, "if", <<x>>) :
                     c \in cs, bl \in Lists(b, cs), x \in Ifs(n - 1 - b, cs) } : b \in 0..(n - 2) }

\* one conditional of every condition form, with and without an initializer
\* (the initializer holding a function literal, empty or with a guard inside)
RichIfs ==
    { MkIf(c, FALSE, <<>>, <<>>, "none", <<>>) : c \in Conds }
    \cup { MkIf(c, TRUE, il, <<>>, "none", <<>>) :
             c \in Conds, il \in Lists(0, {CondErrNeNil}) \cup Lists(1, {CondErrNeNil}) }

\* the bodies and final alternatives of the links of a generated else-if chain
LinkBodies == { <<>>, << MkIf(CondErrNeNil, FALSE, <<>>, <<>>, "none", <<>>) >> }

RECURSIVE Chains(_)
\* the else-if chains of exactly k conditionals
Chains(k) ==
    IF k = 1
    THEN { MkIf(c, FALSE, <<>>, bl, "none", <<>>) : c \in BasicConds, bl \in LinkBodies }
         \cup { MkIf(c, FALSE, <<>>, bl, "block", el) :
                   c \in BasicConds, bl \in LinkBodies, el \in LinkBodies }
    ELSE { MkIf(c, FALSE, <<>>, bl, "if", <<x>>) : c \in BasicConds, bl \in LinkBodies, x \in Chains(k - 1) }

StmtLists ==
    UNION { Lists(m, BasicConds) : m \in 0..MaxIfs }
    \cup UNION { { <<x>> : x \in Chains(k) } : k \in 1..MaxChain }
    \cup { <<r>> : r \in RichIfs }
    \* the same as the nested conditional of an else-if
    \cup { << MkIf(CondXNeNil, FALSE, <<>>, <<>>, "if", <<r>>) >> : r \in RichIfs }

\* the names a file is given to the tool under: a plain one, and one holding a
\* double quote
PlainName == "a.go"
Names == { PlainName, "a\".go" }

\* name: the file name argument
\* cmt: whether a block comment holding the word else precedes every else keyword
Inputs == { [name |-> PlainName, stmts |-> l, cmt |-> c] : l \in StmtLists, c \in BOOLEAN }

-----------------------------------------------------------------------------
(* Model of parser.ParseFile with token.FileSet positions (go/parser,      *)
(* go/ast, go/token): lays the file out and builds the node heap.          *)

NoCond == [bin |-> FALSE, xIdent |-> FALSE, x |-> "", op |-> "", yIdent |-> FALSE, y |-> ""]

MkNode(k, p, i, c, b, e, lb, rb, l) ==
    [kind |-> k, pos |-> p, init |-> i, cond |-> c, body |-> b, els |-> e,
     lbrace |-> lb, rbrace |-> rb, list |-> l]

\* what stands between a body and the else keyword
ElseGap(cmt) == IF cmt THEN Chars("/*else*/") ELSE <<" ">>

RECURSIVE TIf(_, _), TList(_, _)
\* the text of a statement list: every statement is followed by a newline
TList(l, cmt) ==
    IF l = <<>> THEN <<>> ELSE TIf(Head(l), cmt) \o <<"\n">> \o TList(Tail(l), cmt)
TBlock(l, cmt) == <<"{">> \o TList(l, cmt) \o <<"}">>
TInit(a, cmt) ==
    IF a.hasInit THEN T_initOpen \o TList(a.initList, cmt) \o Chars("}();") ELSE <<>>
\* the text of a conditional
TIf(a, cmt) ==
    T_if \o TInit(a, cmt) \o CondText(a.cond) \o TBlock(a.body, cmt)
    \o (IF a.elseKind = "none" THEN <<>>
        ELSE ElseGap(cmt) \o T_else \o <<" ">>
             \o (IF a.elseKind = "block" THEN TBlock(a.elseList, cmt)
                 ELSE TIf(a.elseList[1], cmt)))

RECURSIVE NIf(_), NList(_)
\* the number of nodes of a statement list, of the parts of a conditional, of a conditional
NList(l) == IF l = <<>> THEN 0 ELSE NIf(Head(l)) + NList(Tail(l))
NInit(a) == IF a.hasInit THEN NList(a.initList) + 1 ELSE 0
NIf(a) ==
    NInit(a) + NList(a.body) + 1
    + (IF a.elseKind = "none" THEN 0
       ELSE IF a.elseKind = "block" THEN NList(a.elseList) + 1
       ELSE NIf(a.elseList[1]))
    + 1

\* Offsets in the file of the parts of a conditional that starts at offset off:
\* its initializer, its body's opening brace, the end of its body, its else
\* keyword, its alternative.
InitOff(off) == off + Len(T_if)
BodyOff(a, cmt, off) == InitOff(off) + Len(TInit(a, cmt)) + Len(CondText(a.cond))
ElseOff(a, cmt, off) == BodyOff(a, cmt, off) + Len(TBlock(a.body, cmt)) + Len(ElseGap(cmt))

\* Nodes are numbered in the order they are completed.  With base the number
\* of nodes before a conditional: the number of nodes before its body, and
\* before its alternative.
BodyBase(a, base) == base + NInit(a)
ElseBase(a, base) == BodyBase(a, base) + NList(a.body) + 1

RECURSIVE ListIds(_, _)
\* the nodes of the statements of a list
ListIds(l, base) ==
    IF l = <<>> THEN <<>>
    ELSE <<base + NIf(Head(l))>> \o ListIds(Tail(l), base + NIf(Head(l)))

\* ea: the offset of the node's else keyword, -1 when it has none
Entry(node, ea) == [node |-> node, ea |-> ea]

RECURSIVE PIf(_, _, _, _), PList(_, _, _, _)
\* the nodes of a statement list that starts at offset off
PList(l, cmt, off, base) ==
    IF l = <<>> THEN <<>>
    ELSE PIf(Head(l), cmt, off, base)
         \o PList(Tail(l), cmt, off + Len(TIf(Head(l), cmt)) + 1, base + NIf(Head(l)))
\* the nodes of a block whose opening brace is at offset off
PBlock(l, cmt, off, base) ==
    PList(l, cmt, off + 1, base)
    \o << Entry(MkNode("BlockStmt", off + 1, 0, NoCond, 0, 0,
                       off + 1, off + Len(TBlock(l, cmt)), ListIds(l, base)), -1) >>
\* the nodes of the conditional at offset off: those of its initializer, its
\* body and its alternative, then its own, the last of its NIf(a) nodes
PIf(a, cmt, off, base) ==
    (IF a.hasInit
     THEN PList(a.initList, cmt, InitOff(off) + Len(T_initOpen), base)
          \o << Entry(MkNode("AssignStmt", InitOff(off) + 1, 0, NoCond, 0, 0, 0, 0,
                             ListIds(a.initList, base)), -1) >>
     ELSE <<>>)
    \o PBlock(a.body, cmt, BodyOff(a, cmt, off), BodyBase(a, base))
    \o (IF a.elseKind = "none" THEN <<>>
        ELSE IF a.elseKind = "block"
             THEN PBlock(a.elseList, cmt, ElseOff(a, cmt, off) + Len(T_else) + 1,
                         ElseBase(a, base))
        ELSE PIf(a.elseList[1], cmt, ElseOff(a, cmt, off) + Len(T_else) + 1,
                 ElseBase(a, base)))
    \o << Entry(MkNode("IfStmt", off + 1, IF a.hasInit THEN BodyBase(a, base) ELSE 0, a.cond,
                       ElseBase(a, base),
                       IF a.elseKind = "none" THEN 0 ELSE base + NIf(a) - 1, 0, 0, <<>>),
                IF a.elseKind = "none" THEN -1 ELSE ElseOff(a, cmt, off)) >>

\* the file's text, and the offset its function body's statements start at
FileText(in) == T_package \o T_func \o TList(in.stmts, in.cmt) \o <<"}", "\n">>
BodyStart == Len(T_package \o T_func)
PResult(txt, es) ==
    [content |-> txt, heap |-> [i \in 1..Len(es) |-> es[i].node], root |-> Len(es),
     nameEnd |-> Len(T_package) + 1, elseAt |-> [i \in 1..Len(es) |-> es[i].ea]]

\* the file's nodes: the statements, the function body, the function, the file
ParseFile(in) ==
    PResult(FileText(in),
            PList(in.stmts, in.cmt, BodyStart, 0)
            \o << Entry(MkNode("BlockStmt", BodyStart - 1, 0, NoCond, 0, 0, BodyStart - 1,
                               BodyStart + Len(TList(in.stmts, in.cmt)) + 1,
                               ListIds(in.stmts, 0)), -1),
                  Entry(MkNode("FuncDecl", Len(T_package) + 2, 0, NoCond, 0, 0, 0, 0,
                               <<NList(in.stmts) + 1>>), -1),
                  Entry(MkNode("File", 1, 0, NoCond, 0, 0, 0, 0, <<NList(in.stmts) + 2>>),
                        -1) >>)

\* ast.Node.End() for the nodes Visit asks it of
RECURSIVE End(_, _)
End(h, id) ==
    IF h[id].kind = "IfStmt"
    THEN IF h[id].els # 0 THEN End(h, h[id].els) ELSE End(h, h[id].body)
    ELSE h[id].rbrace + 1

-----------------------------------------------------------------------------
(* Positional Edit Buffer: NewBuffer, Insert, Bytes.                        *)
(* An Edit is [pos, text]; a text is kept as the arguments of the call that *)
(* builds it and is expanded to bytes when the buffer is materialized.      *)

NewBuffer == <<>>

Insert(b, pos, text) == Append(b, [pos |-> pos, text |-> text])

\* a text without arguments: a brace, or the import lines
FixedText(s) ==
    [kind |-> s, mod |-> [neg |-> FALSE, mag |-> <<0, 0, 0>>], name |-> "", line |-> 0]

\* a number below 10^9 in nine digits
Pad9(n) == SubSeq("000000000", 1, 9 - Len(ToString(n))) \o ToString(n)
\* fmt's %d of a Go int
FormatInt(v) ==
    (IF v.neg THEN "-" ELSE "")
    \o (IF v.mag[1] # 0 THEN ToString(v.mag[1]) \o Pad9(v.mag[2]) \o Pad9(v.mag[3])
        ELSE IF v.mag[2] # 0 THEN ToString(v.mag[2]) \o Pad9(v.mag[3])
        ELSE ToString(v.mag[3]))

\* the bytes of a text: fmt.Sprintf of src/main.go:344-350 and of 257-266,
\* and the braces of 292-293
TextBytes(t) ==
    CASE t.kind = "import" ->
            Chars("\nimport " \o randPackageName \o " \"" \o randPackagePath \o "\""
                  \o "\nimport " \o fmtPackageName \o " \"" \o fmtPackagePath \o "\"\n")
      [] t.kind = "inject" ->
            Chars("if " \o randPackageName \o ".Int() % " \o FormatInt(t.mod) \o " == 0 {\n"
                  \o "    " \o fmtPackageName \o ".Printf(\"injected error at " \o t.name
                  \o ":" \o ToString(t.line) \o "\\n\")\n"
                  \o "    err = " \o fmtPackageName \o ".Errorf(\"injected error at "
                  \o t.name \o ":" \o ToString(t.line) \o "\")\n"
                  \o "}\n")
      [] OTHER -> << t.kind >>

RECURSIVE SortStable(_, _)
\* the indices ks of the Edits of b, ordered by position, ties in recorded order
SortStable(b, ks) ==
    IF ks = {} THEN <<>>
    ELSE LET k == CHOOSE k \in ks :
                    \A j \in ks : b[k].pos < b[j].pos \/ (b[k].pos = b[j].pos /\ k <= j)
         IN  <<k>> \o SortStable(b, ks \ {k})

RECURSIVE BytesFrom(_, _, _, _)
\* the output from original offset p on, order being the Edits still to apply
BytesFrom(old, b, order, p) ==
    IF order = <<>> THEN SubSeq(old, p + 1, Len(old))
    ELSE LET e == b[Head(order)]
         IN  SubSeq(old, p + 1, e.pos) \o TextBytes(e.text)
               \o BytesFrom(old, b, Tail(order), e.pos)

Bytes(old, b) == BytesFrom(old, b, SortStable(b, DOMAIN b), 0)

-----------------------------------------------------------------------------
(* File.findText, src/main.go:209-239 *)

At(s, i) == s[i + 1]

\* bytes.HasPrefix(s[i:], b)
HasPrefix(s, i, b) ==
    /\ i + Len(b) <= Len(s)
    /\ \A k \in 1..Len(b) : s[i + k] = b[k]

\* src/main.go:224
BlockCommentAt(s, i) == i + 2 <= Len(s) /\ At(s, i) = "/" /\ At(s, i + 1) = "*"

RECURSIVE SkipLine(_, _)
\* for i < len(s) && s[i] != '\n' { i++ }
SkipLine(s, i) == IF i < Len(s) /\ At(s, i) # "\n" THEN SkipLine(s, i + 1) ELSE i

RECURSIVE SkipBlock(_, _)
\* the inner loop of the block comment case: the offset after the closing */,
\* or -1 where the code leaves findText with return 0
SkipBlock(s, i) ==
    IF i + 2 > Len(s) THEN -1
    ELSE IF At(s, i) = "*" /\ At(s, i + 1) = "/" THEN i + 2
    ELSE SkipBlock(s, i + 1)

RECURSIVE findLoop(_, _, _)
findLoop(s, b, i) ==
    IF ~(i < Len(s)) THEN -1
    ELSE IF HasPrefix(s, i, b) THEN i
    ELSE IF i + 2 <= Len(s) /\ At(s, i) = "/" /\ At(s, i + 1) = "/"
         THEN findLoop(s, b, SkipLine(s, i))
    ELSE IF BlockCommentAt(s, i)
         THEN LET j == SkipBlock(s, i + 2)
              IN  IF j < 0 THEN 0 ELSE findLoop(s, b, j)
    ELSE findLoop(s, b, i + 1)

findText(s, start, text) == findLoop(s, text, start)

-----------------------------------------------------------------------------
(* Positions *)

\* File.offset: fset.Position(pos).Offset
offset(pos) == pos - 1
\* fset.File(p).Pos(off), src/main.go:299.  For an offset beyond the file's
\* size the go/token of the toolchain either panics (PosPanics) or gives the
\* position of the file's end; f.clamps tells which.
PosPanics(f, off) == off > Len(f.content) /\ ~f.clamps
FilePos(f, off) == IF off > Len(f.content) THEN Len(f.content) + 1 ELSE off + 1

\* fset.Position(pos).Line
Line(s, pos) == 1 + Cardinality({ i \in 1..offset(pos) : s[i] = "\n" })

-----------------------------------------------------------------------------
(* The error-percent flag and the modulus of the template, src/main.go:261 *)

Abs(x) == IF x < 0 THEN -x ELSE x

\* Go's int is 64 bits wide on both builds, wider than the integers of the
\* model: an int is kept as its sign and its magnitude, the magnitude in
\* three limbs of nine decimal digits, most significant first.
GoInt(n) == [neg |-> n < 0, mag |-> <<0, Abs(n) \div 10^9, Abs(n) % 10^9>>]
IsPositive(v) == ~v.neg /\ v.mag # <<0, 0, 0>>

\* Results of converting +Inf to int, which Go leaves to the implementation:
\* the smallest int on amd64, the largest on arm64.
MinInt == [neg |-> TRUE, mag |-> <<9, 223372036, 854775808>>]
MaxInt == [neg |-> FALSE, mag |-> <<9, 223372036, 854775807>>]

\* faulty variant of Modulus: the quotient is rounded up
ModulusRoundedUp(p, a) == IF p.num = 0 THEN GoInt(0) ELSE GoInt((100 * p.den) \div p.num + 1)
\* p = [num, den] is the flag's value num/den; 100/p is taken exactly
Modulus(p, a) ==
    IF p.num = 0 THEN (IF a = "amd64" THEN MinInt ELSE MaxInt)
    ELSE IF (p.num > 0) = (p.den > 0)
         THEN GoInt(Abs(100 * p.den) \div Abs(p.num))
         ELSE GoInt(-(Abs(100 * p.den) \div Abs(p.num)))

-----------------------------------------------------------------------------
(* File.Visit, src/main.go:242-318, and ast.Walk.                           *)
(* f is the receiver with what it reads besides: [name, content, percent,   *)
(* arch, clamps].                                                           *)
(* w is what a visit changes: [q, heap, panic].                             *)

\* faulty variant of IsGuard: the initializer is not looked at
IsGuardAnyInit(n) ==
    /\ n.cond.bin
    /\ n.cond.xIdent /\ n.cond.x = "err"
    /\ n.cond.op \in {"==", "!="}
    /\ n.cond.yIdent /\ n.cond.y = "nil"
\* src/main.go:249-254
IsGuard(n) ==
    /\ n.init = 0
    /\ n.cond.bin
    /\ n.cond.xIdent /\ n.cond.x = "err"
    /\ n.cond.op \in {"==", "!="}
    /\ n.cond.yIdent /\ n.cond.y = "nil"

\* faulty variant of ElseInserts: the closing brace goes to the end of the body
ElseInsertsAtBodyEnd(b, h, n, elseOffset) ==
    Insert(Insert(b, elseOffset + 4, FixedText("{")), offset(End(h, n.body)), FixedText("}"))
\* faulty variant of ElseInserts: the two braces are inserted at each other's place
ElseInsertsSwapped(b, h, n, elseOffset) ==
    Insert(Insert(b, offset(End(h, n.els)), FixedText("{")), elseOffset + 4, FixedText("}"))
\* src/main.go:292-293
ElseInserts(b, h, n, elseOffset) ==
    Insert(Insert(b, elseOffset + 4, FixedText("{")), offset(End(h, n.els)), FixedText("}"))

\* faulty variant of WrapElse: a block alternative is left as it is
WrapElseKeepLbrace(w, id, pos) ==
    LET stmt == w.heap[id].els
    IN  IF w.heap[stmt].kind = "IfStmt"
        THEN LET block == MkNode("BlockStmt", pos, 0, NoCond, 0, 0, pos, End(w.heap, stmt), <<stmt>>)
                 h1 == Append(w.heap, block)
             IN  [w EXCEPT !.heap = [h1 EXCEPT ![id].els = Len(h1)]]
        ELSE w
\* faulty variant of WrapElse: the new block does not hold the nested conditional
WrapElseDropsStmt(w, id, pos) ==
    LET stmt == w.heap[id].els
    IN  IF w.heap[stmt].kind = "IfStmt"
        THEN LET block == MkNode("BlockStmt", pos, 0, NoCond, 0, 0, pos, End(w.heap, stmt), <<>>)
                 h1 == Append(w.heap, block)
             IN  [w EXCEPT !.heap = [h1 EXCEPT ![id].els = Len(h1)]]
        ELSE IF w.heap[stmt].kind = "BlockStmt"
        THEN [w EXCEPT !.heap[stmt].lbrace = pos, !.heap[stmt].pos = pos]
        ELSE [w EXCEPT !.panic = "unexpected node type in if"]
\* src/main.go:299-312
WrapElse(w, id, pos) ==
    LET stmt == w.heap[id].els
    IN  IF w.heap[stmt].kind = "IfStmt"
        THEN LET block == MkNode("BlockStmt", pos, 0, NoCond, 0, 0, pos, End(w.heap, stmt), <<stmt>>)
                 h1 == Append(w.heap, block)
             IN  [w EXCEPT !.heap = [h1 EXCEPT ![id].els = Len(h1)]]
        ELSE IF w.heap[stmt].kind = "BlockStmt"
        THEN [w EXCEPT !.heap[stmt].lbrace = pos, !.heap[stmt].pos = pos]
        ELSE [w EXCEPT !.panic = "unexpected node type in if"]

RECURSIVE Walk(_, _, _), WalkList(_, _, _), Visit(_, _, _), VisitIf(_, _, _), VisitElse(_, _, _)

\* src/main.go:313: ast.Walk(f, n.Else), reached unless line 311 panicked
WalkElse(f, w, id) ==
    IF w.panic # "" THEN w ELSE Walk(f, w, w.heap[id].els)

\* src/main.go:299-313: the position after the else keyword, the wrapping, the walk
ElseBlock(f, w, id, elseOffset) ==
    IF PosPanics(f, elseOffset + 4) THEN [w EXCEPT !.panic = "illegal file offset"]
    ELSE WalkElse(f, WrapElse(w, id, FilePos(f, elseOffset + 4)), id)

\* src/main.go:289-313: the else handling once the keyword has been looked for
ElseFound(f, w, id, elseOffset) ==
    IF elseOffset < 0 THEN [w EXCEPT !.panic = "lost else"]
    ELSE ElseBlock(f, [w EXCEPT !.q = ElseInserts(@, w.heap, w.heap[id], elseOffset)],
                   id, elseOffset)

\* src/main.go:288-314
VisitElse(f, w, id) ==
    ElseFound(f, w, id, findText(f.content, offset(End(w.heap, w.heap[id].body)), T_else))

\* src/main.go:246-248: ast.Walk(f, n.Init) when the conditional has an initializer
WalkInit(f, w, n) ==
    IF n.init # 0 THEN Walk(f, w, n.init) ELSE w

\* src/main.go:249-267: the injected test of a guard
InjectGuard(f, w, n) ==
    IF w.panic = "" /\ IsGuard(n)
    THEN [w EXCEPT !.q = Insert(@, offset(n.pos),
                                [kind |-> "inject", mod |-> Modulus(f.percent, f.arch),
                                 name |-> f.name, line |-> Line(f.content, n.pos)])]
    ELSE w

\* src/main.go:274-314: nothing more without an else branch
AfterBody(f, w, id) ==
    IF w.panic # "" \/ w.heap[id].els = 0 THEN w ELSE VisitElse(f, w, id)

\* src/main.go:245-316: the IfStmt case.  ast.Walk(f, n.Cond) visits the
\* condition's identifiers, for which Visit records nothing.
VisitIf(f, w, id) ==
    AfterBody(f, Walk(f, InjectGuard(f, WalkInit(f, w, w.heap[id]), w.heap[id]), w.heap[id].body), id)

\* ast.Walk after Visit returned: the children in order unless Visit returned nil
WalkChildren(f, r, id) ==
    IF r.v THEN WalkList(f, r.w, r.w.heap[id].list) ELSE r.w

\* src/main.go:242-318: v is whether Visit returns the visitor (f) or nil
Visit(f, w, id) ==
    IF w.heap[id].kind = "IfStmt"
    THEN [w |-> VisitIf(f, w, id), v |-> FALSE]
    ELSE [w |-> w, v |-> TRUE]

\* ast.Walk: visit the node and, unless Visit returned nil, its children in order
Walk(f, w, id) ==
    IF w.panic # "" THEN w ELSE WalkChildren(f, Visit(f, w, id), id)
WalkList(f, w, l) ==
    IF l = <<>> THEN w ELSE WalkList(f, Walk(f, w, Head(l)), Tail(l))

-----
(* Configurations *)

\* the default of the error-percent flag, 0.1 (src/main.go:173)
DefaultPercent == [num |-> 1, den |-> 10]

Configs ==
    { [percent |-> p, arch |-> a, output |-> o] :
        p \in { DefaultPercent, [num |-> 5, den |-> 1], [num |-> 3, den |-> 1],
                 [num |-> 100, den |-> 1], [num |-> 200, den |-> 1], [num |-> 0, den |-> 1],
                 [num |-> -5, den |-> 1] },
        a \in {"amd64", "arm64"}, o \in {"", "out.go"} }

DefaultConfig == [percent |-> DefaultPercent, arch |-> "amd64", output |-> ""]

\* the files every configuration is run on: one guard, and a guard in an else-if
SmallInputs ==
    { [name |-> n, stmts |-> l, cmt |-> FALSE] :
        n \in Names,
        l \in { << MkIf(CondErrNeNil, FALSE, <<>>, <<>>, "none", <<>>) >>,
                << MkIf(CondXNeNil, FALSE, <<>>, <<>>, "if",
                        << MkIf(CondErrNeNil, FALSE, <<>>, <<>>, "none", <<>>) >>) >> } }

Runs ==
    { <<in, DefaultConfig>> : in \in Inputs }
    \cup { <<in, c>> : in \in SmallInputs,
                       c \in { c \in Configs : c.arch = "arm64" => c.percent.num = 0 } }

-----------------------------------------------------------------------------
(* injectErrors, src/main.go:325-377 *)

NotParsed == [content |-> <<>>, heap |-> <<>>, root |-> 0, nameEnd |-> 0, elseAt |-> <<>>]

Init ==
    /\ \E r \in Runs :
         /\ input = r[1]
         /\ errorPercent = r[2].percent
         /\ arch = r[2].arch
         /\ output = r[2].output
    /\ parsed = NotParsed
    /\ content = <<>>
    /\ heap = <<>>
    /\ root = 0
    /\ nameEnd = 0
    /\ q = <<>>
    /\ panicked = ""
    /\ pc = "start"
    /\ newContent = <<>>
    /\ formatted = <<>>
    /\ err = ""
    /\ fd = ""
    /\ written = <<>>
    /\ wrote = FALSE
    /\ exit = ""
    /\ fstart = 0
    /\ fkey = <<>>
    /\ fres = <<>>

\* src/main.go:327-334: the file cannot be read or does not parse
ReadOrParseFail ==
    /\ pc = "start"
    /\ pc' = "exit"
    /\ exit' = "fatal"
    /\ UNCHANGED <<input, parsed, content, heap, root, nameEnd, errorPercent, arch, output, q,
                   panicked, newContent, formatted, err, fd, written, wrote,
                   fstart, fkey, fres>>

\* src/main.go:326-342: the file is read and parsed, the File is built
NewFile ==
    /\ pc = "start"
    /\ LET p == ParseFile(input)
       IN  /\ parsed' = p
           /\ content' = p.content
           /\ heap' = p.heap
           /\ root' = p.root
           /\ nameEnd' = p.nameEnd
    /\ q' = NewBuffer
    /\ pc' = "import"
    /\ UNCHANGED <<input, errorPercent, arch, output, panicked, newContent, formatted,
                   err, fd, written, wrote, exit, fstart, fkey, fres>>

\* src/main.go:343-350
InsertImport ==
    /\ pc = "import"
    /\ q' = Insert(q, offset(nameEnd), FixedText("import"))
    /\ pc' = "walk"
    /\ UNCHANGED <<input, parsed, content, heap, root, nameEnd, errorPercent, arch, output,
                   panicked, newContent, formatted, err, fd, written, wrote, exit,
                   fstart, fkey, fres>>

\* clamps: whether token.File.Pos of the toolchain clamps an offset beyond the file
Receiver(clamps) ==
    [name |-> input.name, content |-> content, percent |-> errorPercent, arch |-> arch,
     clamps |-> clamps]

\* src/main.go:352: ast.Walk(file, file.astFile)
WalkFile ==
    /\ pc = "walk"
    /\ \E clamps \in BOOLEAN :
         LET w == Walk(Receiver(clamps), [q |-> q, heap |-> heap, panic |-> ""], root)
         IN  /\ q' = w.q
             /\ heap' = w.heap
             /\ panicked' = w.panic
             /\ pc' = IF w.panic = "" THEN "bytes" ELSE "exit"
             /\ exit' = IF w.panic = "" THEN "" ELSE "panic"
    /\ UNCHANGED <<input, parsed, content, root, nameEnd, errorPercent, arch, output,
                   newContent, formatted, err, fd, written, wrote, fstart, fkey, fres>>

\* src/main.go:353-355
Materialize ==
    /\ pc = "bytes"
    /\ newContent' = Bytes(content, q)
                       \o Chars("\nvar _ = " \o randPackageName \o ".Int")
                       \o Chars("\nvar _ = " \o fmtPackageName \o ".Printf")
    /\ pc' = "open"
    /\ UNCHANGED <<input, parsed, content, heap, root, nameEnd, errorPercent, arch, output, q,
                   panicked, formatted, err, fd, written, wrote, exit, fstart, fkey, fres>>

\* src/main.go:357-364, os.Create succeeding or not needed
OpenOutput ==
    /\ pc = "open"
    /\ fd' = IF output # "" THEN "file" ELSE "stdout"
    /\ pc' = "format"
    /\ UNCHANGED <<input, parsed, content, heap, root, nameEnd, errorPercent, arch, output, q,
                   panicked, newContent, formatted, err, written, wrote, exit,
                   fstart, fkey, fres>>

\* src/main.go:360-363, os.Create failing
CreateFail ==
    /\ pc = "open"
    /\ output # ""
    /\ pc' = "exit"
    /\ exit' = "fatal"
    /\ UNCHANGED <<input, parsed, content, heap, root, nameEnd, errorPercent, arch, output, q,
                   panicked, newContent, formatted, err, fd, written, wrote,
                   fstart, fkey, fres>>

-----------------------------------------------------------------------------
(* format.Source, src/main.go:366: go/scanner, go/parser and go/printer for  *)
(* the part of Go that the texts of the model are written in.  In these      *)
(* texts no token spans lines, and comments stand only between the body of   *)
(* a conditional and its alternative.                                        *)

Letters ==
    { "a","b","c","d","e","f","g","h","i","j","k","l","m","n","o","p","q","r","s","t","u",
      "v","w","x","y","z","A","B","C","D","E","F","G","H","I","J","K","L","M","N","O","P",
      "Q","R","S","T","U","V","W","X","Y","Z","_" }
Digits == { "0","1","2","3","4","5","6","7","8","9" }
GoKeywords ==
    { Chars(w) : w \in { "break", "case", "chan", "const", "continue", "default", "defer",
                         "else", "fallthrough", "for", "func", "go", "goto", "if", "import",
                         "interface", "map", "package", "range", "return", "select",
                         "struct", "switch", "type", "var" } }

Least(S) == CHOOSE x \in S : \A y \in S : x <= y

\* the first index from i on at which l has a byte outside S, Len(l) + 1 if none
RunEnd(l, i, S) ==
    LET stops == { j \in i..Len(l) : l[j] \notin S }
    IN  IF stops = {} THEN Len(l) + 1 ELSE Least(stops)

\* the byte at j, inside the string literal opened at i, follows an odd number
\* of backslashes
Escaped(l, i, j) ==
    LET others == { k \in i..(j - 1) : l[k] # "\\" }
    IN  (j - 1 - (CHOOSE x \in others : \A y \in others : x >= y)) % 2 = 1
\* the index of the quote closing the string literal opened at i, 0 if none
StringEnd(l, i) ==
    LET qs == { j \in (i + 1)..Len(l) : l[j] = "\"" /\ ~Escaped(l, i, j) }
    IN  IF qs = {} THEN 0 ELSE Least(qs)

Illegal(l) == [k |-> "illegal", s |-> <<>>, to |-> Len(l) + 1]
\* the token of the kind k that reaches from the byte i to before the byte to
Lexeme(l, k, i, to) == [k |-> k, s |-> SubSeq(l, i, to - 1), to |-> to]
Word(t) == IF t.s \in GoKeywords THEN [t EXCEPT !.k = "keyword"] ELSE t
\* the string literal from i to the quote at e: it is closed, and every
\* backslash in it starts one of the escapes \a \b \f \n \r \t \v \\ \"
StringLit(l, i, e) ==
    IF /\ e # 0
       /\ \A k \in (i + 1)..(e - 1) :
             (l[k] = "\\" /\ ~Escaped(l, i, k))
                => l[k + 1] \in { "a", "b", "f", "n", "r", "t", "v", "\\", "\"" }
    THEN Lexeme(l, "string", i, e + 1)
    ELSE Illegal(l)
\* the block comment opened at i
BlockComment(l, i) ==
    LET cs == { j \in (i + 2)..(Len(l) - 1) : l[j] = "*" /\ l[j + 1] = "/" }
    IN  IF cs = {} THEN Illegal(l) ELSE Lexeme(l, "comment", i, Least(cs) + 2)

\* go/scanner's Scan at the byte i of the line l, which is not a blank
Scan(l, i) ==
    IF l[i] \in Letters THEN Word(Lexeme(l, "ident", i, RunEnd(l, i, Letters \cup Digits)))
    ELSE IF l[i] \in Digits THEN Lexeme(l, "int", i, RunEnd(l, i, Digits))
    ELSE IF l[i] = "\"" THEN StringLit(l, i, StringEnd(l, i))
    ELSE IF i < Len(l) /\ SubSeq(l, i, i + 1) = <<"/", "/">>
         THEN Lexeme(l, "comment", i, Len(l) + 1)
    ELSE IF i < Len(l) /\ SubSeq(l, i, i + 1) = <<"/", "*">> THEN BlockComment(l, i)
    ELSE IF /\ i < Len(l)
            /\ SubSeq(l, i, i + 1) \in { <<"!","=">>, <<"=","=">>, <<":","=">>, <<"<","=">>,
                                         <<">","=">>, <<"&","&">>, <<"|","|">> }
         THEN Lexeme(l, "op", i, i + 2)
    ELSE IF l[i] \in { "=", "<", ">", "%", ".", ",", "(", ")", "{", "}", ";", "-", "+", "*",
                       "/", "!", ":" }
         THEN Lexeme(l, "op", i, i + 1)
    ELSE Illegal(l)

RECURSIVE ScanLine(_, _, _, _)
\* the tokens of the line l (of the number ln) from its byte i on; a token is
\* its kind, its bytes, its line, and the comments cmts standing before it
ScanLine(l, i, ln, cmts) ==
    IF i > Len(l) THEN <<>>
    ELSE IF l[i] \in { " ", "\t", "\r" }
         THEN ScanLine(l, RunEnd(l, i, { " ", "\t", "\r" }), ln, cmts)
    ELSE LET t == Scan(l, i)
         IN  IF t.k = "comment" THEN ScanLine(l, t.to, ln, Append(cmts, t.s))
             ELSE << [k |-> t.k, s |-> t.s, line |-> ln, cmts |-> cmts] >>
                  \o ScanLine(l, t.to, ln, <<>>)

\* go/scanner inserts a semicolon at the end of a line that ends with one of
\* these tokens
EndsStatement(t) ==
    \/ t.k \in { "ident", "int", "string" }
    \/ t.k = "op" /\ t.s \in { <<")">>, <<"}">> }
    \/ t.k = "keyword" /\ t.s \in { Chars("break"), Chars("continue"),
                                     Chars("fallthrough"), Chars("return") }
LineTokens(l, ln) ==
    LET ts == ScanLine(l, 1, ln, <<>>)
    IN  IF ts # <<>> /\ EndsStatement(ts[Len(ts)])
        THEN Append(ts, [k |-> "op", s |-> <<"\n">>, line |-> ln, cmts |-> <<>>])
        ELSE ts

\* the indices of the first bytes of the lines of src
LineStarts(src) == { 1 } \cup { i + 1 : i \in { j \in 1..Len(src) : src[j] = "\n" } }
\* the line that starts at the index from, without its newline
LineAt(src, starts, from) ==
    LET later == { s \in starts : s > from }
    IN  SubSeq(src, from, (IF later = {} THEN Len(src) + 1 ELSE Least(later) - 1) - 1)

RECURSIVE TokensIn(_, _, _, _)
\* the tokens of the lines that start between lo and hi
TokensIn(src, starts, lo, hi) ==
    IF { s \in starts : lo <= s /\ s <= hi } = {} THEN <<>>
    ELSE IF lo = hi
         THEN LineTokens(LineAt(src, starts, lo), Cardinality({ s \in starts : s <= lo }))
    ELSE TokensIn(src, starts, lo, (lo + hi) \div 2)
           \o TokensIn(src, starts, (lo + hi) \div 2 + 1, hi)

\* the tokens of the text src
Tokens(src) == TokensIn(src, LineStarts(src), 1, Len(src) + 1)

(* go/parser: one operator per parsing function; a result holds the node    *)
(* and the index of the token after it.                                     *)

EndOfFile == [k |-> "eof", s |-> <<>>, line |-> 0, cmts |-> <<>>]
TokenAt(ts, i) == IF i <= Len(ts) THEN ts[i] ELSE EndOfFile
IsOp(t, c) == t.k = "op" /\ t.s = c
IsKeyword(t, w) == t.k = "keyword" /\ t.s = Chars(w)
IsSemicolon(t) == t.k = "op" /\ t.s \in { <<";">>, <<"\n">> }
NoNode == [kind |-> "none"]
Bad == [ok |-> FALSE, n |-> NoNode, i |-> 0]
Parsed(n, i) == [ok |-> TRUE, n |-> n, i |-> i]
\* the node n completed by its last part, the result r
Complete(r, n, part) == IF ~r.ok THEN Bad ELSE Parsed([n EXCEPT ![part] = r.n], r.i)
\* an entry of a statement or declaration list: the node, the lines of its
\* first and of its last token
Listed(ts, n, first, next) ==
    [n |-> n, line |-> TokenAt(ts, first).line, end |-> TokenAt(ts, next - 1).line]

\* token.Token.Precedence
Precedence(t) ==
    IF t.k # "op" THEN 0
    ELSE IF t.s = <<"|", "|">> THEN 1
    ELSE IF t.s = <<"&", "&">> THEN 2
    ELSE IF t.s \in { <<"=", "=">>, <<"!", "=">>, <<"<">>, <<"<", "=">>, <<">">>,
                      <<">", "=">> } THEN 3
    ELSE IF t.s \in { <<"+">>, <<"-">> } THEN 4
    ELSE IF t.s \in { <<"*">>, <<"/">>, <<"%">> } THEN 5
    ELSE 0

RECURSIVE parseBinaryExpr(_, _, _), binaryLoop(_, _, _), parseUnaryExpr(_, _),
          primaryLoop(_, _), callArgs(_, _, _, _), parseBlockStmt(_, _),
          parseStmtList(_, _, _, _), parseIfStmt(_, _)

binaryJoin(ts, x, op, y, prec1) ==
    IF ~y.ok THEN Bad
    ELSE binaryLoop(ts, Parsed([kind |-> "binary", x |-> x.n, op |-> op.s, y |-> y.n], y.i),
                    prec1)
\* the loop of parseBinaryExpr, x being the operand parsed so far
binaryLoop(ts, x, prec1) ==
    IF ~x.ok THEN Bad
    ELSE IF Precedence(TokenAt(ts, x.i)) < prec1 THEN x
    ELSE binaryJoin(ts, x, TokenAt(ts, x.i),
                    parseBinaryExpr(ts, x.i + 1, Precedence(TokenAt(ts, x.i)) + 1), prec1)
parseBinaryExpr(ts, i, prec1) == binaryLoop(ts, parseUnaryExpr(ts, i), prec1)

\* a function literal without parameters
parseFuncTypeOrLit(ts, i) ==
    IF IsOp(TokenAt(ts, i + 1), <<"(">>) /\ IsOp(TokenAt(ts, i + 2), <<")">>)
    THEN Complete(parseBlockStmt(ts, i + 3), [kind |-> "funclit", body |-> NoNode], "body")
    ELSE Bad
parseOperand(ts, i) ==
    IF TokenAt(ts, i).k \in { "ident", "int", "string" }
    THEN Parsed([kind |-> "basic", s |-> TokenAt(ts, i).s], i + 1)
    ELSE IF IsKeyword(TokenAt(ts, i), "func") THEN parseFuncTypeOrLit(ts, i)
    ELSE Bad

callArg(ts, fun, a, args) ==
    IF ~a.ok THEN Bad
    ELSE IF IsOp(TokenAt(ts, a.i), <<",">>) THEN callArgs(ts, fun, a.i + 1, Append(args, a.n))
    ELSE IF IsOp(TokenAt(ts, a.i), <<")">>)
         THEN primaryLoop(ts, Parsed([kind |-> "call", fun |-> fun,
                                      args |-> Append(args, a.n)], a.i + 1))
    ELSE Bad
\* parseCallOrConversion from the token i on, which follows "(" or ","
callArgs(ts, fun, i, args) ==
    IF IsOp(TokenAt(ts, i), <<")">>)
    THEN primaryLoop(ts, Parsed([kind |-> "call", fun |-> fun, args |-> args], i + 1))
    ELSE callArg(ts, fun, parseBinaryExpr(ts, i, 1), args)
\* the loop of parsePrimaryExpr, x being the operand parsed so far
primaryLoop(ts, x) ==
    IF ~x.ok THEN Bad
    ELSE IF IsOp(TokenAt(ts, x.i), <<".">>)
         THEN IF TokenAt(ts, x.i + 1).k = "ident"
              THEN primaryLoop(ts, Parsed([kind |-> "selector", x |-> x.n,
                                           sel |-> TokenAt(ts, x.i + 1).s], x.i + 2))
              ELSE Bad
    ELSE IF IsOp(TokenAt(ts, x.i), <<"(">>) THEN callArgs(ts, x.n, x.i + 1, <<>>)
    ELSE x
parseUnaryExpr(ts, i) ==
    IF IsOp(TokenAt(ts, i), <<"-">>) \/ IsOp(TokenAt(ts, i), <<"!">>)
    THEN Complete(parseUnaryExpr(ts, i + 1),
                [kind |-> "unary", op |-> TokenAt(ts, i).s, x |-> NoNode], "x")
    ELSE primaryLoop(ts, parseOperand(ts, i))

\* parseSimpleStmt, x being the expression the statement begins with
simpleStmt(ts, x) ==
    IF ~x.ok THEN Bad
    ELSE IF IsOp(TokenAt(ts, x.i), <<":", "=">>) \/ IsOp(TokenAt(ts, x.i), <<"=">>)
         THEN Complete(parseBinaryExpr(ts, x.i + 1, 1),
                     [kind |-> "assign", lhs |-> x.n, tok |-> TokenAt(ts, x.i).s,
                      rhs |-> NoNode], "rhs")
    ELSE Parsed([kind |-> "expr", x |-> x.n], x.i)
parseSimpleStmt(ts, i) == simpleStmt(ts, parseBinaryExpr(ts, i, 1))

parseStmt(ts, i) ==
    IF IsKeyword(TokenAt(ts, i), "if") THEN parseIfStmt(ts, i)
    ELSE IF IsOp(TokenAt(ts, i), <<"{">>) THEN parseBlockStmt(ts, i)
    ELSE parseSimpleStmt(ts, i)

stmtNext(ts, s, i, lbrace, list) ==
    IF ~s.ok THEN Bad
    ELSE IF IsSemicolon(TokenAt(ts, s.i)) \/ IsOp(TokenAt(ts, s.i), <<"}">>)
         THEN parseStmtList(ts, s.i, lbrace, Append(list, Listed(ts, s.n, i, s.i)))
    ELSE Bad
\* parseStmtList and the closing brace of parseBlockStmt, from the token i on
parseStmtList(ts, i, lbrace, list) ==
    IF IsOp(TokenAt(ts, i), <<"}">>)
    THEN Parsed([kind |-> "block", lbrace |-> lbrace, rbrace |-> TokenAt(ts, i).line,
                 list |-> list], i + 1)
    ELSE IF IsSemicolon(TokenAt(ts, i)) THEN parseStmtList(ts, i + 1, lbrace, list)
    ELSE IF TokenAt(ts, i).k = "eof" THEN Bad
    ELSE stmtNext(ts, parseStmt(ts, i), i, lbrace, list)
parseBlockStmt(ts, i) ==
    IF IsOp(TokenAt(ts, i), <<"{">>) THEN parseStmtList(ts, i + 1, TokenAt(ts, i).line, <<>>)
    ELSE Bad

\* the alternative of a conditional, which starts at the token i
parseElse(ts, i) ==
    IF IsKeyword(TokenAt(ts, i), "if") THEN parseIfStmt(ts, i)
    ELSE IF IsOp(TokenAt(ts, i), <<"{">>) THEN parseBlockStmt(ts, i)
    ELSE Bad
\* cmts: the comments between the body and the alternative
ifBody(ts, init, cond, b) ==
    IF ~b.ok THEN Bad
    ELSE IF IsKeyword(TokenAt(ts, b.i), "else")
         THEN Complete(parseElse(ts, b.i + 1),
                     [kind |-> "if", init |-> init, cond |-> cond, body |-> b.n,
                      els |-> NoNode,
                      cmts |-> TokenAt(ts, b.i).cmts \o TokenAt(ts, b.i + 1).cmts], "els")
    ELSE Parsed([kind |-> "if", init |-> init, cond |-> cond, body |-> b.n,
                 els |-> NoNode, cmts |-> <<>>], b.i)
ifCond(ts, init, c) ==
    IF ~c.ok THEN Bad ELSE ifBody(ts, init, c.n, parseBlockStmt(ts, c.i))
\* parseIfHeader, s being the simple statement after "if"
ifHeader(ts, s) ==
    IF ~s.ok THEN Bad
    ELSE IF IsOp(TokenAt(ts, s.i), <<";">>)
         THEN ifCond(ts, s.n, parseBinaryExpr(ts, s.i + 1, 1))
    ELSE IF s.n.kind = "expr" THEN ifBody(ts, NoNode, s.n.x, parseBlockStmt(ts, s.i))
    ELSE Bad
parseIfStmt(ts, i) == ifHeader(ts, parseSimpleStmt(ts, i + 1))

\* an import, a function without parameters, or a variable with its value
parseDecl(ts, i) ==
    IF IsKeyword(TokenAt(ts, i), "import")
    THEN IF TokenAt(ts, i + 1).k = "ident" /\ TokenAt(ts, i + 2).k = "string"
         THEN Parsed([kind |-> "import", name |-> TokenAt(ts, i + 1).s \o <<" ">>,
                      path |-> TokenAt(ts, i + 2).s], i + 3)
         ELSE IF TokenAt(ts, i + 1).k = "string"
         THEN Parsed([kind |-> "import", name |-> <<>>, path |-> TokenAt(ts, i + 1).s], i + 2)
         ELSE Bad
    ELSE IF IsKeyword(TokenAt(ts, i), "func")
         THEN IF /\ TokenAt(ts, i + 1).k = "ident"
                 /\ IsOp(TokenAt(ts, i + 2), <<"(">>)
                 /\ IsOp(TokenAt(ts, i + 3), <<")">>)
              THEN Complete(parseBlockStmt(ts, i + 4),
                          [kind |-> "func", name |-> TokenAt(ts, i + 1).s, body |-> NoNode],
                          "body")
              ELSE Bad
    ELSE IF IsKeyword(TokenAt(ts, i), "var")
         THEN IF TokenAt(ts, i + 1).k = "ident" /\ IsOp(TokenAt(ts, i + 2), <<"=">>)
              THEN Complete(parseBinaryExpr(ts, i + 3, 1),
                          [kind |-> "var", name |-> TokenAt(ts, i + 1).s, value |-> NoNode],
                          "value")
              ELSE Bad
    ELSE Bad

RECURSIVE parseDeclList(_, _, _, _)
\* an import must stand before every other declaration
declNext(ts, d, i, name, decls) ==
    IF ~d.ok THEN Bad
    ELSE IF d.n.kind = "import" /\ \E k \in 1..Len(decls) : decls[k].n.kind # "import"
         THEN Bad
    ELSE IF IsSemicolon(TokenAt(ts, d.i))
         THEN parseDeclList(ts, d.i + 1, name, Append(decls, Listed(ts, d.n, i, d.i)))
    ELSE Bad
\* the declarations of parseFile, from the token i on
parseDeclList(ts, i, name, decls) ==
    IF TokenAt(ts, i).k = "eof" THEN Parsed([name |-> name, decls |-> decls], i)
    ELSE declNext(ts, parseDecl(ts, i), i, name, decls)
\* parser.ParseFile: the package clause, then the declarations
parseFile(ts) ==
    IF /\ IsKeyword(TokenAt(ts, 1), "package")
       /\ TokenAt(ts, 2).k = "ident"
       /\ IsSemicolon(TokenAt(ts, 3))
    THEN parseDeclList(ts, 4, Listed(ts, TokenAt(ts, 2).s, 2, 3), <<>>)
    ELSE Bad

(* go/printer: one operator per printing function; ind is the indentation   *)
(* of the line being printed.                                               *)

Tabs(n) == [i \in 1..n |-> "\t"]
\* printer.linebreak: the line breaks before an item of the source line line,
\* the last item printed being of the line cur; at least min, at most two
linebreak(line, cur, min) ==
    [i \in 1..(IF line - cur >= 2 THEN 2 ELSE IF line - cur > min THEN line - cur ELSE min)
       |-> "\n"]

BinaryPrec(e) == Precedence([k |-> "op", s |-> e.op])
IsBinary(e, precs) == e.kind = "binary" /\ BinaryPrec(e) \in precs
RECURSIVE has(_, _)
\* walkBinary: an operator of the precedence prec stands in e outside parentheses
has(e, prec) ==
    \/ BinaryPrec(e) = prec
    \/ IsBinary(e.x, BinaryPrec(e)..5) /\ has(e.x, prec)
    \/ IsBinary(e.y, (BinaryPrec(e) + 1)..5) /\ has(e.y, prec)
RECURSIVE maxProblem(_)
\* walkBinary: the precedence at which blanks are needed to keep "+ +" and
\* "- -" apart
maxProblem(e) ==
    IF \/ IsBinary(e.x, BinaryPrec(e)..5) /\ maxProblem(e.x) = 4
       \/ IsBinary(e.y, (BinaryPrec(e) + 1)..5) /\ maxProblem(e.y) = 4
       \/ e.y.kind = "unary" /\ e.op = e.y.op /\ e.op \in { <<"+">>, <<"-">> }
    THEN 4 ELSE 0
cutoff(e, depth) ==
    IF maxProblem(e) > 0 THEN maxProblem(e) + 1
    ELSE IF has(e, 4) /\ has(e, 5) THEN (IF depth = 1 THEN 5 ELSE 4)
    ELSE IF depth = 1 THEN 6
    ELSE 4
diffPrec(e, prec) == IF e.kind = "binary" /\ BinaryPrec(e) = prec THEN 0 ELSE 1

RECURSIVE expr1(_, _, _), exprList(_, _, _, _), block(_, _), stmtList(_, _, _, _), stmt(_, _)

\* blanks stand around the operator when its precedence is below the cutoff
binaryExpr(e, cut, depth, ind) ==
    expr1(e.x, depth + diffPrec(e.x, BinaryPrec(e)), ind)
    \o (IF BinaryPrec(e) < cut THEN <<" ">> \o e.op \o <<" ">> ELSE e.op)
    \o expr1(e.y, depth + 1, ind)
\* a body whose braces share a line and which holds no statement stays on
\* that line
funcBody(b, ind) ==
    IF b.lbrace = b.rbrace /\ b.list = <<>> THEN <<" ", "{", "}">> ELSE <<" ">> \o block(b, ind)
\* the expressions of args from the k-th on
exprList(args, k, depth, ind) ==
    IF k > Len(args) THEN <<>>
    ELSE (IF k > 1 THEN <<",", " ">> ELSE <<>>) \o expr1(args[k], depth, ind)
         \o exprList(args, k + 1, depth, ind)
expr1(e, depth, ind) ==
    CASE e.kind = "binary" -> binaryExpr(e, cutoff(e, depth), depth, ind)
      [] e.kind = "unary" -> e.op \o expr1(e.x, depth, ind)
      [] e.kind = "selector" -> expr1(e.x, depth, ind) \o <<".">> \o e.sel
      [] e.kind = "call" ->
            expr1(e.fun, IF Len(e.args) > 1 THEN depth + 1 ELSE depth, ind) \o <<"(">>
            \o exprList(e.args, 1, IF Len(e.args) > 1 THEN depth + 1 ELSE depth, ind)
            \o <<")">>
      [] e.kind = "funclit" -> Chars("func()") \o funcBody(e.body, ind)
      [] OTHER -> e.s

block(b, ind) ==
    <<"{">> \o stmtList(b.list, 1, b.lbrace, ind + 1)
    \o linebreak(b.rbrace, IF b.list = <<>> THEN b.lbrace ELSE b.list[Len(b.list)].end, 1)
    \o Tabs(ind) \o <<"}">>
\* the statements of list from the k-th on, the last item printed being of
\* the line cur
stmtList(list, k, cur, ind) ==
    IF k > Len(list) THEN <<>>
    ELSE linebreak(list[k].line, cur, 1) \o Tabs(ind) \o stmt(list[k].n, ind)
         \o stmtList(list, k + 1, list[k].end, ind)

RECURSIVE Comments(_)
Comments(cmts) ==
    IF cmts = <<>> THEN <<>> ELSE Head(cmts) \o <<" ">> \o Comments(Tail(cmts))
\* a conditional: its controlClause, its body and its alternative; a comment
\* between the body and the alternative is printed after the else keyword
stmt(s, ind) ==
    CASE s.kind = "expr" -> expr1(s.x, 1, ind)
      [] s.kind = "assign" ->
            expr1(s.lhs, 1, ind) \o <<" ">> \o s.tok \o <<" ">> \o expr1(s.rhs, 1, ind)
      [] s.kind = "block" -> block(s, ind)
      [] OTHER ->
            Chars("if ")
            \o (IF s.init = NoNode THEN <<>> ELSE stmt(s.init, ind) \o <<";", " ">>)
            \o expr1(s.cond, 1, ind) \o <<" ">> \o block(s.body, ind)
            \o (IF s.els = NoNode THEN <<>>
                ELSE Chars(" else ") \o Comments(s.cmts) \o stmt(s.els, ind))

decl(d) ==
    CASE d.kind = "import" -> Chars("import ") \o d.name \o d.path
      [] d.kind = "func" -> Chars("func ") \o d.name \o <<"(", ")">> \o funcBody(d.body, 0)
      [] OTHER -> Chars("var ") \o d.name \o Chars(" = ") \o expr1(d.value, 1, 0)
RECURSIVE declList(_, _, _)
\* the declarations from the k-th on: an empty line where the kind changes
declList(decls, k, cur) ==
    IF k > Len(decls) THEN <<>>
    ELSE linebreak(decls[k].line, cur,
                   IF k > 1 /\ decls[k - 1].n.kind = decls[k].n.kind THEN 1 ELSE 2)
         \o decl(decls[k].n) \o declList(decls, k + 1, decls[k].end)
\* printer.Fprint on a file
file(f) ==
    Chars("package ") \o f.name.n \o declList(f.decls, 1, f.name.end) \o <<"\n">>

\* format.Source: the text printed anew, unless it does not parse
Source(src) ==
    LET f == parseFile(Tokens(src))
    IN  IF f.ok THEN [ok |-> TRUE, out |-> file(f.n)] ELSE [ok |-> FALSE, out |-> <<>>]

-----------------------------------------------------------------------------
\* src/main.go:366-371: format.Source, and on its error the unformatted text
\* kept for the write
Format ==
    /\ pc = "format"
    /\ \E r \in { Source(newContent) } :
          /\ formatted' = IF r.ok THEN r.out ELSE newContent
          /\ err' = IF r.ok THEN "" ELSE "Code formatting failed with Go parse error"
    /\ pc' = "write"
    /\ UNCHANGED <<input, parsed, content, heap, root, nameEnd, errorPercent, arch, output, q,
                   panicked, newContent, fd, written, wrote, exit, fstart, fkey, fres>>

\* faulty variant of WriteOutput: the run ends without the write
FinishBeforeWrite ==
    /\ pc = "write"
    /\ pc' = "exit"
    /\ exit' = IF err # "" THEN "fatal" ELSE "ok"
    /\ UNCHANGED <<input, parsed, content, heap, root, nameEnd, errorPercent, arch, output, q,
                   panicked, newContent, formatted, err, fd, written, wrote,
                   fstart, fkey, fres>>
\* src/main.go:372
WriteOutput ==
    /\ pc = "write"
    /\ written' = formatted
    /\ wrote' = TRUE
    /\ pc' = "check"
    /\ UNCHANGED <<input, parsed, content, heap, root, nameEnd, errorPercent, arch, output, q,
                   panicked, newContent, formatted, err, fd, exit, fstart, fkey, fres>>

\* src/main.go:374-377
Finish ==
    /\ pc = "check"
    /\ pc' = "exit"
    /\ exit' = IF err # "" THEN "fatal" ELSE "ok"
    /\ UNCHANGED <<input, parsed, content, heap, root, nameEnd, errorPercent, arch, output, q,
                   panicked, newContent, formatted, err, fd, written, wrote,
                   fstart, fkey, fres>>

Next ==
    \/ ReadOrParseFail
    \/ NewFile
    \/ InsertImport
    \/ WalkFile
    \/ Materialize
    \/ OpenOutput
    \/ CreateFail
    \/ Format
    \/ WriteOutput
    \/ Finish

Spec == Init /\ [][Next]_vars

-----------------------------------------------------------------------------
(* findText and the else handling of Visit on arbitrary buffers.            *)
(* A buffer is a concatenation of at most MaxPieces pieces; the else        *)
(* handling is run for a conditional whose body ends at fstart and whose    *)
(* alternative is a block reaching to the end of the buffer.                *)

Pieces == { T_else, <<"/","*">>, <<"*","/">>, <<"/","/">>, <<"\n">>, <<"e">> }

RECURSIVE Buffers(_)
Buffers(n) == IF n = 0 THEN {<<>>} ELSE {<<>>} \cup { p \o b : p \in Pieces, b \in Buffers(n - 1) }

ProbeHeap(start, len) ==
    << MkNode("BlockStmt", start, 0, NoCond, 0, 0, start, start, <<>>),
       MkNode("BlockStmt", len, 0, NoCond, 0, 0, len, len, <<>>),
       MkNode("IfStmt", 1, 0, NoCond, 1, 2, 0, 0, <<>>) >>

InitFind ==
    /\ content \in Buffers(MaxPieces)
    /\ fstart \in 0..Len(content)
    /\ fkey \in { T_else, <<"/">> }
    /\ fres = <<>>
    /\ input = [name |-> PlainName, stmts |-> <<>>, cmt |-> FALSE]
    /\ parsed = NotParsed
    /\ heap = ProbeHeap(fstart, Len(content))
    /\ root = 3
    /\ nameEnd = 0
    /\ errorPercent = DefaultPercent
    /\ arch = "amd64"
    /\ output = ""
    /\ q = NewBuffer
    /\ panicked = ""
    /\ pc = "probe"
    /\ newContent = <<>>
    /\ formatted = <<>>
    /\ err = ""
    /\ fd = ""
    /\ written = <<>>
    /\ wrote = FALSE
    /\ exit = ""

\* src/main.go:209-239 called with (start, keyword)
FindTextCall ==
    /\ pc = "probe"
    /\ fres = <<>>
    /\ fres' = << findText(content, fstart, fkey) >>
    /\ UNCHANGED <<input, parsed, content, heap, root, nameEnd, errorPercent, arch, output, q,
                   panicked, pc, newContent, formatted, err, fd, written, wrote, exit,
                   fstart, fkey>>

\* src/main.go:288-314 run for the conditional of ProbeHeap
ElseCall ==
    /\ pc = "probe"
    /\ fstart >= 1
    /\ fkey = T_else
    /\ \E clamps \in BOOLEAN :
         LET w == VisitElse(Receiver(clamps), [q |-> q, heap |-> heap, panic |-> ""], root)
         IN  /\ q' = w.q
             /\ heap' = w.heap
             /\ panicked' = w.panic
             /\ pc' = IF w.panic = "" THEN "probed" ELSE "exit"
             /\ exit' = IF w.panic = "" THEN "" ELSE "panic"
    /\ UNCHANGED <<input, parsed, content, root, nameEnd, errorPercent, arch, output,
                   newContent, formatted, err, fd, written, wrote, fstart, fkey, fres>>

NextFind == FindTextCall \/ ElseCall

SpecFind == InitFind /\ [][NextFind]_vars

-----------------------------------------------------------------------------
(* Properties of findText (checked under SpecFind) *)

\* the keyword b occurs byte for byte at offset i of s
OccursAt(s, i, b) == i + Len(b) <= Len(s) /\ SubSeq(s, i + 1, i + Len(b)) = b

\* the offset at which the comment opened at offset i ends: for a line comment
\* the next newline, for a block comment the byte after its closing */,
\* and the end of the buffer when the comment is not terminated
CommentEnd(s, i) ==
    LET stops == IF At(s, i + 1) = "/"
                 THEN { j \in (i + 2)..(Len(s) - 1) : At(s, j) = "\n" }
                 ELSE { j + 2 : j \in { j \in (i + 2)..(Len(s) - 2) :
                                           At(s, j) = "*" /\ At(s, j + 1) = "/" } }
    IN  IF stops = {} THEN Len(s) ELSE CHOOSE j \in stops : \A k \in stops : j <= k

RECURSIVE CodeOffsets(_, _)
\* the offsets from i on that lie outside every line and block comment, the
\* text being read forward from offset i
CodeOffsets(s, i) ==
    IF i >= Len(s) THEN {}
    ELSE IF i + 2 <= Len(s) /\ At(s, i) = "/" /\ At(s, i + 1) \in {"/", "*"}
         THEN CodeOffsets(s, CommentEnd(s, i))
    ELSE {i} \cup CodeOffsets(s, i + 1)

\* the offsets findText is specified to choose from
Matches == { i \in CodeOffsets(content, fstart) : OccursAt(content, i, fkey) }

MinOf(S) == CHOOSE x \in S : \A y \in S : x <= y

\* C8 (as claimed): whenever no occurrence of "else" outside comments exists
\* from the start offset on, findText returns -1, and the else handling
\* panics with "lost else" without recording an Edit.
C8_NotFoundIsMinusOneAndPanics ==
    (fkey = T_else /\ Matches = {}) =>
        /\ fres # <<>> => fres[1] = -1
        /\ pc # "probe" => (panicked = "lost else" /\ q = <<>>)

\* C9 (as claimed): whenever an occurrence of the keyword outside comments
\* exists from the start offset on, findText returns the smallest such
\* offset, and so never an offset inside a comment.
C9_FirstMatchOutsideComments ==
    (fres # <<>> /\ Matches # {}) => fres[1] = MinOf(Matches)

-----------------------------------------------------------------------------
(* Properties of the traversal (checked under Spec) *)

\* the tree as the parser delivered it, before Visit changed any node
Tree == parsed.heap
IfIds == { i \in DOMAIN Tree : Tree[i].kind = "IfStmt" }

\* the Guard Shape: no initializer, and the condition is exactly
\* err == nil or err != nil
GuardShape(n) ==
    /\ n.init = 0
    /\ n.cond \in { CondErrNeNil, [CondErrNeNil EXCEPT !.op = "=="] }

\* the traversal has run to its end
Traversed == pc \in {"bytes", "open", "format", "write", "check"} \/ (pc = "exit" /\ newContent # <<>>)

EditsOf(kind, off) == { k \in DOMAIN q : q[k].text.kind = kind /\ q[k].pos = off }

\* j is the nested conditional of an else-if of i
ElseIfOf(i, j) == Tree[i].els = j /\ Tree[j].kind = "IfStmt"
\* i has a plain block as its alternative
HasElseBlock(i) == Tree[i].els # 0 /\ Tree[Tree[i].els].kind = "BlockStmt"

\* C1: after a complete traversal every conditional of the Guard Shape has
\* exactly one injection Edit at its own starting offset, wherever it sits.
C1_EveryGuardInjectedOnce ==
    Traversed =>
        \A i \in IfIds :
            GuardShape(Tree[i]) => Cardinality(EditsOf("inject", offset(Tree[i].pos))) = 1

\* C1 witness: a traversed file in which a guard is the nested conditional of
\* the second else-if of a chain, and carries its injection.
C1_Witness ==
    /\ Traversed
    /\ \E i, j, k \in IfIds :
          /\ ElseIfOf(i, j) /\ ElseIfOf(j, k)
          /\ GuardShape(Tree[k])
          /\ EditsOf("inject", offset(Tree[k].pos)) # {}

\* C2: no injection Edit is ever recorded at the starting offset of a
\* conditional that has an initializer or whose condition is not exactly
\* err == nil or err != nil.
C2_NoInjectionAtNonGuard ==
    \A i \in IfIds :
        ~GuardShape(Tree[i]) => EditsOf("inject", offset(Tree[i].pos)) = {}

\* C2 witness: a traversed file with a conditional err != nil that has an
\* initializer, the guard inside the initializer having been injected.
C2_Witness ==
    /\ Traversed
    /\ \E i \in IfIds :
          /\ Tree[i].init # 0
          /\ Tree[i].cond = CondErrNeNil
          /\ EditsOf("inject", offset(Tree[i].pos)) = {}
          /\ \E k \in DOMAIN q : q[k].text.kind = "inject" /\ q[k].pos > offset(Tree[i].pos)

\* C3 (as claimed): no injection template with a modulus of 0 or less is
\* ever recorded or emitted: such a configuration is rejected.
C3_NoNonPositiveModulus ==
    \A k \in DOMAIN q : q[k].text.kind = "inject" => IsPositive(q[k].text.mod)

\* the integer the claim of C7 describes: 100/p truncated toward zero
Truncated100Over(p) ==
    CHOOSE m \in -1000..1000 :
        IF p.num > 0
        THEN m >= 0 /\ m * p.num <= 100 * p.den /\ 100 * p.den < (m + 1) * p.num
        ELSE m <= 0 /\ (-m) * (-p.num) <= 100 * p.den /\ 100 * p.den < (1 - m) * (-p.num)

\* the random values the injected condition is evaluated for
MaxRand == 5

\* the places of the materialized text a modulus stands at: after ".Int() % "
ModulusAt ==
    LET mark == Chars(".Int() % ")
    IN  { x \in 10..Len(newContent) :
            newContent[x - 1] = " " /\ newContent[x - 2] = "%"
              /\ SubSeq(newContent, x - 9, x - 1) = mark }
\* the bytes b stand at place x of the materialized text
Emitted(x, b) == SubSeq(newContent, x, x + Len(b) - 1) = b

\* C7: the modulus of every injection template, recorded and emitted, is
\* 100 divided by the configured percentage (where that quotient exists),
\* truncated; 5 gives 20; with 100 it is 1 and rand % 1 == 0 always holds.
C7_ModulusIsTruncatedReciprocal ==
    errorPercent.num # 0 =>
        LET t == Truncated100Over(errorPercent)
        IN  /\ \A k \in DOMAIN q :
                  q[k].text.kind = "inject" =>
                     /\ q[k].text.mod = GoInt(t)
                     /\ errorPercent = [num |-> 5, den |-> 1] => q[k].text.mod = GoInt(20)
                     /\ errorPercent = [num |-> 100, den |-> 1] =>
                           \A r \in 0..MaxRand : r % q[k].text.mod.mag[3] = 0
            /\ \A x \in ModulusAt : Emitted(x, Chars(ToString(t) \o " == 0"))

\* C7 witness: with error-percent 100 a template of modulus 1 was emitted.
C7_Witness ==
    /\ errorPercent = [num |-> 100, den |-> 1]
    /\ \E k \in DOMAIN q : q[k].text.kind = "inject" /\ q[k].text.mod = GoInt(1)
    /\ \E x \in ModulusAt : Emitted(x, Chars("1 == 0"))

\* C10 (as claimed): the positions of successive insert calls never decrease.
C10_InsertPositionsNonDecreasing ==
    \A j, k \in DOMAIN q : j < k => q[j].pos <= q[k].pos

\* C10 (amended): no insert call is made with a position smaller than that
\* of an earlier insert call other than a closing-brace insert.
C10_NonDecreasingButClosingBraces ==
    \A j, k \in DOMAIN q : (j < k /\ q[j].text.kind # "}") => q[j].pos <= q[k].pos

\* C10 witness: after a traversal, a closing brace was inserted before an
\* injection and an opening brace of smaller positions.
C10_Witness ==
    /\ Traversed
    /\ \E j, k, l \in DOMAIN q :
          /\ j < k /\ j < l
          /\ q[j].text.kind = "}" /\ q[k].text.kind = "inject" /\ q[l].text.kind = "{"
          /\ q[k].pos < q[j].pos /\ q[l].pos < q[j].pos

\* the offset of the else keyword of conditional i, and the end of its alternative
ElseAt(i) == parsed.elseAt[i]
ElseEnd(i) == offset(End(Tree, Tree[i].els))

\* C4 (as claimed): for a conditional whose alternative is a plain block no
\* opening brace is recorded after its else and the block node stays as parsed.
C4_ElseBlockUntouched ==
    Traversed =>
        \A i \in IfIds :
            HasElseBlock(i) =>
                /\ EditsOf("{", ElseAt(i) + 4) = {}
                /\ heap[Tree[i].els] = Tree[Tree[i].els]

\* C4 (amended): for a conditional whose alternative is a plain block the two
\* brace Edits are recorded all the same (one opening brace right after the
\* else and, as for every alternative, one closing brace at its end), the
\* block is not wrapped in a new block and keeps its statements and its
\* closing brace, only its opening position is moved to just after the else,
\* and the block is recursed into.
C4_ElseBlockBracedNotWrapped ==
    Traversed =>
        \A i \in IfIds :
            HasElseBlock(i) =>
                LET b == Tree[i].els
                IN  /\ Cardinality(EditsOf("{", ElseAt(i) + 4)) = 1
                    /\ Cardinality(EditsOf("}", ElseEnd(i)))
                         = Cardinality({ j \in IfIds : Tree[j].els # 0 /\ ElseEnd(j) = ElseEnd(i) })
                    /\ heap[i].els = b
                    /\ heap[b] = [Tree[b] EXCEPT !.lbrace = ElseAt(i) + 5, !.pos = ElseAt(i) + 5]
                    /\ \A x \in 1..Len(Tree[b].list) :
                          GuardShape(Tree[Tree[b].list[x]]) =>
                             EditsOf("inject", offset(Tree[Tree[b].list[x]].pos)) # {}

\* C4 witness: a traversed conditional with a plain block as alternative, the
\* block holding a guard that was injected.
C4_Witness ==
    /\ Traversed
    /\ \E i \in IfIds :
          /\ HasElseBlock(i)
          /\ EditsOf("{", ElseAt(i) + 4) # {}
          /\ \E x \in 1..Len(Tree[Tree[i].els].list) :
                /\ GuardShape(Tree[Tree[Tree[i].els].list[x]])
                /\ EditsOf("inject", offset(Tree[Tree[Tree[i].els].list[x]].pos)) # {}

\* the formatter has been called
FormatterRan == formatted # <<>>

References ==
    Chars("\nvar _ = " \o randPackageName \o ".Int" \o "\nvar _ = " \o fmtPackageName \o ".Printf")

\* C6: when the formatter fails the raw bytes (the materialized Edits plus
\* the reference expressions) are written and only then the run fails; when
\* it succeeds its result is written and the run does not fail; the run
\* never ends after the formatter ran without the output having been written.
C6_WriteBeforeFailure ==
    /\ (FormatterRan /\ exit # "") => wrote
    /\ (FormatterRan /\ err # "" /\ exit # "") => exit = "fatal"
    /\ (FormatterRan /\ err = "" /\ exit # "") => exit = "ok"
    /\ (wrote /\ err # "") =>
          /\ written = newContent
          /\ written = Bytes(content, q) \o References
    /\ (wrote /\ err = "") =>
          /\ written = formatted
          /\ written[Len(written)] = "\n"
          /\ pc = "check" => written = Source(newContent).out

\* C6 witness: a run that failed on the formatter after writing the raw bytes.
C6_Witness ==
    /\ exit = "fatal"
    /\ err # ""
    /\ wrote
    /\ written = newContent
    /\ \E k \in DOMAIN q : q[k].text.kind = "inject"

\* Edit j is rendered before Edit k
Before(j, k) == q[j].pos < q[k].pos \/ (q[j].pos = q[k].pos /\ j < k)

RECURSIVE TextLens(_)
\* the number of bytes of the text of each of the first n Edits
TextLens(n) == IF n = 0 THEN <<>> ELSE Append(TextLens(n - 1), Len(TextBytes(q[n].text)))

RECURSIVE TextLenSum(_, _)
\* the number of bytes of the texts of the Edits with indices in S, L giving
\* the number of bytes of each
TextLenSum(L, S) ==
    IF S = {} THEN 0
    ELSE LET k == CHOOSE k \in S : TRUE
         IN  L[k] + TextLenSum(L, S \ {k})

\* where the text of Edit k starts in the materialized text
OutAt(L, k) == q[k].pos + TextLenSum(L, { j \in DOMAIN q : Before(j, k) }) + 1
\* where the original byte at offset o stands in the materialized text
OrigAt(L, o) == o + 1 + TextLenSum(L, { j \in DOMAIN q : q[j].pos <= o })

\* what a byte of the materialized text adds to the brace depth
BraceDelta(byte) ==
    CASE byte = "{" -> 1
      [] byte = "}" -> -1
      [] OTHER -> 0

BraceIdx == { x \in 1..Len(newContent) : BraceDelta(newContent[x]) # 0 }
DepthAfter(B, x) ==
    Cardinality({ y \in B : y <= x /\ BraceDelta(newContent[y]) = 1 })
      - Cardinality({ y \in B : y <= x /\ BraceDelta(newContent[y]) = -1 })
\* the closing braces after index o that bring the depth below the one inside o
ClosersOf(B, o) == { c \in B : c > o /\ DepthAfter(B, c) = DepthAfter(B, o) - 1 }

\* C5: for every else-if, one opening brace is recorded right after the else
\* keyword and a closing brace at the end of the alternative; in the
\* materialized text the braces are balanced, the brace closing the inserted
\* opening brace is one inserted at the end of the alternative, so that the
\* pair encloses the whole nested conditional, and the injection of a nested
\* guard stands after that opening brace and before the nested if.
C5_ElseIfBracesEnclose ==
    (Traversed /\ newContent # <<>>) =>
        LET B == BraceIdx
            L == TextLens(Len(q))
        IN  /\ \A x \in B : DepthAfter(B, x) >= 0
            /\ DepthAfter(B, Len(newContent)) = 0
            /\ \A i, m \in IfIds :
                  ElseIfOf(i, m) =>
                     /\ Cardinality(EditsOf("{", ElseAt(i) + 4)) = 1
                     /\ SubSeq(content, ElseAt(i) + 1, ElseAt(i) + 4) = T_else
                     /\ EditsOf("}", offset(End(Tree, m))) # {}
                     /\ LET ko == CHOOSE k \in EditsOf("{", ElseAt(i) + 4) : TRUE
                            o == OutAt(L, ko)
                            first == OrigAt(L, offset(Tree[m].pos))
                            last == OrigAt(L, offset(End(Tree, m)) - 1)
                        IN  /\ newContent[o] = "{"
                            /\ o = OrigAt(L, ElseAt(i) + 3) + 1
                            /\ o < first
                            /\ ClosersOf(B, o) # {}
                            /\ LET c == MinOf(ClosersOf(B, o))
                               IN  /\ last < c
                                   /\ \E kc \in EditsOf("}", offset(End(Tree, m))) : OutAt(L, kc) = c
                                   /\ GuardShape(Tree[m]) =>
                                         \E ki \in EditsOf("inject", offset(Tree[m].pos)) :
                                            /\ o < OutAt(L, ki)
                                            /\ OutAt(L, ki) + L[ki] = first

\* C5 witness: a materialized chain if .. else if .. else if whose last
\* conditional is an injected guard, a comment holding "else" preceding
\* each else keyword.
C5_Witness ==
    /\ Traversed
    /\ newContent # <<>>
    /\ input.cmt
    /\ \E i, j, k \in IfIds :
          /\ ElseIfOf(i, j) /\ ElseIfOf(j, k)
          /\ GuardShape(Tree[k])
          /\ Cardinality(EditsOf("}", offset(End(Tree, j)))) = 2

====
